---- MODULE Spec2Model ----
(***************************************************************************)
(* Model of the cpf-cnpj-validator library: generation, validation and     *)
(* formatting of CPF and CNPJ (numeric and alphanumeric) documents.        *)
(*                                                                         *)
(* A string is a sequence of one-character strings.  An array of numbers   *)
(* is a sequence of integers.  An element of the (number | string)[] base  *)
(* of an alphanumeric CNPJ is a tagged record (JsNum / JsStr), so that     *)
(* `typeof digit === "string"` can be evaluated.                           *)
(***************************************************************************)
EXTENDS Integers, Sequences, FiniteSets, TLC

(***************************************************************************)
(* Bounds of the model.                                                    *)
(***************************************************************************)
\* Math.random is modelled by a seed base whose last MaxFree symbols are
\* drawn freely (every digit, and the letters MaxLetters allows).
MaxFree == 1
\* The letters the random source and the caller's edits draw come from the
\* first MaxLetters letters of ALPHABET.
MaxLetters == 2
\* How many times in a row the caller applies a format function.
MaxFormats == 2

(***************************************************************************)
(* Characters.                                                             *)
(***************************************************************************)
DigitChars == <<"0","1","2","3","4","5","6","7","8","9">>

Digits == {DigitChars[i] : i \in 1..10}

UpperLetters ==
  {"A","B","C","D","E","F","G","H","I","J","K","L","M",
   "N","O","P","Q","R","S","T","U","V","W","X","Y","Z"}

LowerLetters ==
  {"a","b","c","d","e","f","g","h","i","j","k","l","m",
   "n","o","p","q","r","s","t","u","v","w","x","y","z"}

\* Line terminators, which `.` in a regular expression does not match.
LineTerminators == {"\n", "\r"}

\* ../constants (not part of the sources at hand).
CPF_LENGTH == 11

CNPJ_LENGTH == 14

ALPHABET ==
  <<"A","B","C","D","E","F","G","H","I","J","K","L","M",
    "N","O","P","Q","R","S","T","U","V","W","X","Y","Z">>

(***************************************************************************)
(* JavaScript primitives used by the library.                              *)
(***************************************************************************)
\* The value parseInt and Number return for a string that is no number.
NaN == -1

\* a === b on numbers: NaN is equal to nothing, itself included.
StrictEq(a, b) == a # NaN /\ b # NaN /\ a = b

\* Number(c) for a one-character string c: the digit's value, 0 for white
\* space, NaN for every other character (letters, punctuation).
Number(c) ==
  CASE c \in Digits -> (CHOOSE i \in 0..9 : DigitChars[i + 1] = c)
    [] c \in {" ", "\n", "\r"} -> 0
    [] OTHER -> NaN

isNaN(n) == n = NaN

\* String(n) of a non-negative integer, as Array.prototype.join writes it.
RECURSIVE NumToStr(_)
NumToStr(n) ==
  IF n < 10 THEN <<DigitChars[n + 1]>>
  ELSE NumToStr(n \div 10) \o <<DigitChars[(n % 10) + 1]>>

\* numbers.join("")
RECURSIVE JoinNums(_)
JoinNums(ns) ==
  IF ns = <<>> THEN <<>> ELSE NumToStr(Head(ns)) \o JoinNums(Tail(ns))

\* The value of a digit of radix r, or NaN.
HexVal(c) ==
  CASE c \in Digits -> Number(c)
    [] c \in {"a","A"} -> 10
    [] c \in {"b","B"} -> 11
    [] c \in {"c","C"} -> 12
    [] c \in {"d","D"} -> 13
    [] c \in {"e","E"} -> 14
    [] c \in {"f","F"} -> 15
    [] OTHER -> NaN

RadixVal(c, r) == IF r = 16 THEN HexVal(c) ELSE Number(c)

\* The number written by the longest prefix of s made of digits of radix r,
\* continuing from acc; seen tells whether a digit was read.
RECURSIVE ParsePrefix(_, _, _, _)
ParsePrefix(s, r, acc, seen) ==
  IF s = <<>> \/ isNaN(RadixVal(Head(s), r))
  THEN (IF seen THEN acc ELSE NaN)
  ELSE ParsePrefix(Tail(s), r, acc * r + RadixVal(Head(s), r), TRUE)

\* parseInt(s) with no radix argument, for a string without leading white
\* space or sign: a 0x / 0X prefix selects radix 16.
parseInt(s) ==
  IF Len(s) >= 2 /\ s[1] = "0" /\ s[2] \in {"x", "X"}
  THEN ParsePrefix(SubSeq(s, 3, Len(s)), 16, 0, FALSE)
  ELSE ParsePrefix(s, 10, 0, FALSE)

\* a[i] for the 0-based index i: undefined past the end, which like NaN is
\* strictly equal to no number.
At(a, i) == IF i + 1 \in DOMAIN a THEN a[i + 1] ELSE NaN

\* s.slice(0, n) and s.slice(-n)
SliceTo(s, n) == SubSeq(s, 1, IF n < Len(s) THEN n ELSE Len(s))

SliceLast(s, n) == SubSeq(s, (IF Len(s) > n THEN Len(s) - n + 1 ELSE 1), Len(s))

\* True when every character of s satisfies the class cls (a set).
AllIn(s, cls) == \A i \in 1..Len(s) : s[i] \in cls

\* /^(\d)\1+$/.test(s): a digit followed by one or more copies of itself.
RepeatedDigit(s) ==
  /\ Len(s) >= 2
  /\ s[1] \in Digits
  /\ \A i \in 2..Len(s) : s[i] = s[1]

(***************************************************************************)
(* CPF engine.                                                             *)
(***************************************************************************)
RECURSIVE WeightedSumCPF(_, _, _)
WeightedSumCPF(numbers, weight, index) ==
  IF index >= Len(numbers) THEN 0
  ELSE numbers[index + 1] * (weight - index)
         + WeightedSumCPF(numbers, weight, index + 1)

\* Mutant: the first weight is the length, not the length plus one.
cpf_calculateCheckDigit_weightLen(numbers) ==
  LET weight == Len(numbers)
      sum == WeightedSumCPF(numbers, weight, 0)
      remainder == sum % 11
  IN  IF remainder < 2 THEN 0 ELSE 11 - remainder

cpf_calculateCheckDigit(numbers) ==
  LET weight == Len(numbers) + 1
      sum == WeightedSumCPF(numbers, weight, 0)
      remainder == sum % 11
  IN  IF remainder < 2 THEN 0 ELSE 11 - remainder

\* The leftmost index at which n consecutive characters of class cls start,
\* or 0 when there is none.
FirstRun(s, n, cls) ==
  IF \E i \in 1..(Len(s) - n + 1) : AllIn(SubSeq(s, i, i + n - 1), cls)
  THEN CHOOSE i \in 1..(Len(s) - n + 1) :
         /\ AllIn(SubSeq(s, i, i + n - 1), cls)
         /\ \A j \in 1..(i - 1) : ~AllIn(SubSeq(s, j, j + n - 1), cls)
  ELSE 0

\* The same for n consecutive characters none of which is in the set excl.
FirstRunNot(s, n, excl) ==
  LET ok(i) == \A k \in i..(i + n - 1) : s[k] \notin excl
  IN  IF \E i \in 1..(Len(s) - n + 1) : ok(i)
      THEN CHOOSE i \in 1..(Len(s) - n + 1) :
             ok(i) /\ \A j \in 1..(i - 1) : ~ok(j)
      ELSE 0

\* Mutant: the replacement string is "$1.$2.$3.$4".
cpf_format_allDots(cpf) ==
  LET i == FirstRun(cpf, 11, Digits)
  IN  IF i = 0 THEN cpf
      ELSE SubSeq(cpf, 1, i - 1)
             \o SubSeq(cpf, i, i + 2) \o <<".">>
             \o SubSeq(cpf, i + 3, i + 5) \o <<".">>
             \o SubSeq(cpf, i + 6, i + 8) \o <<".">>
             \o SubSeq(cpf, i + 9, i + 10)
             \o SubSeq(cpf, i + 11, Len(cpf))

\* cpf.replace(/(\d{3})(\d{3})(\d{3})(\d{2})/, "$1.$2.$3-$4")
cpf_format(cpf) ==
  LET i == FirstRun(cpf, 11, Digits)
  IN  IF i = 0 THEN cpf
      ELSE SubSeq(cpf, 1, i - 1)
             \o SubSeq(cpf, i, i + 2) \o <<".">>
             \o SubSeq(cpf, i + 3, i + 5) \o <<".">>
             \o SubSeq(cpf, i + 6, i + 8) \o <<"-">>
             \o SubSeq(cpf, i + 9, i + 10)
             \o SubSeq(cpf, i + 11, Len(cpf))

\* Mutant: only the punctuation of the mask is removed.
cleanCPF_onlyMask(cpf) == SelectSeq(cpf, LAMBDA c : c \notin {".", "-"})

\* cpf.replace(/\D/g, "")
cleanCPF(cpf) == SelectSeq(cpf, LAMBDA c : c \in Digits)

Blacklisted == <<"1","2","3","4","5","6","7","8","9","0","9">>

\* Mutant: the length test is left out.
cpf_isValidFormat_noLength(cpf) == ~RepeatedDigit(cpf) /\ cpf # Blacklisted

cpf_isValidFormat(cpf) ==
  IF Len(cpf) # CPF_LENGTH THEN FALSE
  ELSE ~RepeatedDigit(cpf) /\ cpf # Blacklisted

\* cleanedCPF.split("").map(Number)
MapNumber(s) == [i \in 1..Len(s) |-> Number(s[i])]

cpf_isValid(cpf) ==
  LET cleanedCPF == cleanCPF(cpf)
  IN  IF ~cpf_isValidFormat(cleanedCPF) THEN FALSE
      ELSE LET digits == MapNumber(cleanedCPF)
               baseCPF == SliceTo(digits, 9)
               firstDigit == cpf_calculateCheckDigit(baseCPF)
               secondDigit == cpf_calculateCheckDigit(Append(baseCPF, firstDigit))
           IN  StrictEq(firstDigit, At(digits, 9)) /\ StrictEq(secondDigit, At(digits, 10))

\* generate(options), given what generateBaseCPF drew.
cpf_generate(baseCPF, formatted) ==
  LET firstDigit == cpf_calculateCheckDigit(baseCPF)
      secondDigit == cpf_calculateCheckDigit(Append(baseCPF, firstDigit))
      cpf == JoinNums(baseCPF \o <<firstDigit, secondDigit>>)
  IN  IF formatted THEN cpf_format(cpf) ELSE cpf

(***************************************************************************)
(* CNPJ numeric (classic) engine: cnpj/numeric.ts.                         *)
(***************************************************************************)
\* The loop of calculateCheckDigit: i runs from digits.length - 1 down to 0
\* (here i + 1 is the index into the sequence).
RECURSIVE numeric_loop(_, _, _, _)
numeric_loop(digits, i, sum, weight) ==
  IF i < 0 THEN sum
  ELSE numeric_loop(digits, i - 1, sum + digits[i + 1] * weight,
                    IF weight = 9 THEN 2 ELSE weight + 1)

\* Mutant: the digit is 11 - rest unless rest is 0.
numeric_calculateCheckDigit_zeroOnly(digits) ==
  LET sum == numeric_loop(digits, Len(digits) - 1, 0, 2)
      rest == sum % 11
  IN  IF rest < 1 THEN 0 ELSE 11 - rest

numeric_calculateCheckDigit(digits) ==
  LET sum == numeric_loop(digits, Len(digits) - 1, 0, 2)
      rest == sum % 11
  IN  IF rest < 2 THEN 0 ELSE 11 - rest

numeric_calculateCheckDigits(baseCNPJ) ==
  LET firstDigit == numeric_calculateCheckDigit(baseCNPJ)
      secondDigit == numeric_calculateCheckDigit(Append(baseCNPJ, firstDigit))
  IN  <<firstDigit, secondDigit>>

generateNumeric(baseCNPJ) ==
  LET dv == numeric_calculateCheckDigits(baseCNPJ)
  IN  JoinNums(baseCNPJ \o <<dv[1], dv[2]>>)

\* numeric ? cnpj.replace(/\D/g, "") : cnpj.replace(/[./-]/g, "")
cleanCNPJ(cnpj, numeric) ==
  IF numeric THEN SelectSeq(cnpj, LAMBDA c : c \in Digits)
  ELSE SelectSeq(cnpj, LAMBDA c : c \notin {".", "/", "-"})

\* Mutant: the repeated-digit test is left out.
numeric_isValidFormat_noRepeat(cnpj) == Len(cnpj) = CNPJ_LENGTH

numeric_isValidFormat(cnpj) == Len(cnpj) = CNPJ_LENGTH /\ ~RepeatedDigit(cnpj)

\* Mutant: only the first check digit is compared.
validateNumeric_firstDigitOnly(cnpj) ==
  LET cleanedCNPJ == cleanCNPJ(cnpj, TRUE)
  IN  IF ~numeric_isValidFormat(cleanedCNPJ) THEN FALSE
      ELSE LET digits == MapNumber(cleanedCNPJ)
               baseCNPJ == SliceTo(digits, 12)
               dv == numeric_calculateCheckDigits(baseCNPJ)
           IN  StrictEq(dv[1], At(digits, 12))

validateNumeric(cnpj) ==
  LET cleanedCNPJ == cleanCNPJ(cnpj, TRUE)
  IN  IF ~numeric_isValidFormat(cleanedCNPJ) THEN FALSE
      ELSE LET digits == MapNumber(cleanedCNPJ)
               baseCNPJ == SliceTo(digits, 12)
               dv == numeric_calculateCheckDigits(baseCNPJ)
           IN  StrictEq(dv[1], At(digits, 12)) /\ StrictEq(dv[2], At(digits, 13))

(***************************************************************************)
(* CNPJ alphanumeric engine: cnpj/alfanumeric.ts.                          *)
(***************************************************************************)
\* An element of a (number | string)[] array.
JsNum(n) == [type |-> "number", num |-> n]

JsStr(c) == [type |-> "string", str |-> c]

letterMap ==
  "A" :> 17 @@ "B" :> 18 @@ "C" :> 19 @@ "D" :> 20 @@ "E" :> 21 @@ "F" :> 22 @@
  "G" :> 23 @@ "H" :> 24 @@ "I" :> 25 @@ "J" :> 26 @@ "K" :> 27 @@ "L" :> 28 @@
  "M" :> 29 @@ "N" :> 30 @@ "O" :> 31 @@ "P" :> 32 @@ "Q" :> 33 @@ "R" :> 34 @@
  "S" :> 35 @@ "T" :> 36 @@ "U" :> 37 @@ "V" :> 38 @@ "W" :> 39 @@ "X" :> 40 @@
  "Y" :> 41 @@ "Z" :> 42

\* Mutant: a letter counts as its base-36 value (A = 10 ... Z = 35).
convertLetterToNumber_base36(digit) ==
  IF digit \in DOMAIN letterMap THEN letterMap[digit] - 7 ELSE 0

\* letterMap[digit] || 0
convertLetterToNumber(digit) ==
  IF digit \in DOMAIN letterMap THEN letterMap[digit] ELSE 0

\* The loop of calculateCheckDigit over a (number | string)[] array.
RECURSIVE alfa_loop(_, _, _, _)
alfa_loop(digits, i, sum, weight) ==
  IF i < 0 THEN sum
  ELSE LET digit == digits[i + 1]
           numericDigit == IF digit.type = "string"
                           THEN convertLetterToNumber(digit.str)
                           ELSE digit.num
       IN  alfa_loop(digits, i - 1, sum + numericDigit * weight,
                     IF weight = 9 THEN 2 ELSE weight + 1)

\* Mutant: the weight of the rightmost element is 3.
alfa_calculateCheckDigit_firstWeight3(digits) ==
  LET sum == alfa_loop(digits, Len(digits) - 1, 0, 3)
      rest == sum % 11
  IN  IF rest < 2 THEN 0 ELSE 11 - rest

\* Mutant: the digit is 11 - rest even when rest < 2.
alfa_calculateCheckDigit_noZeroRule(digits) ==
  LET sum == alfa_loop(digits, Len(digits) - 1, 0, 2)
      rest == sum % 11
  IN  11 - rest

alfa_calculateCheckDigit(digits) ==
  LET sum == alfa_loop(digits, Len(digits) - 1, 0, 2)
      rest == sum % 11
  IN  IF rest < 2 THEN 0 ELSE 11 - rest

alfa_calculateCheckDigits(baseCNPJ) ==
  LET firstDigit == alfa_calculateCheckDigit(baseCNPJ)
      secondDigit == alfa_calculateCheckDigit(Append(baseCNPJ, JsNum(firstDigit)))
  IN  <<firstDigit, secondDigit>>

\* array.join("") of a (number | string)[] array.
RECURSIVE JoinMixed(_)
JoinMixed(a) ==
  IF a = <<>> THEN <<>>
  ELSE (IF Head(a).type = "string" THEN <<Head(a).str>> ELSE NumToStr(Head(a).num))
         \o JoinMixed(Tail(a))

generateAlphanumeric(baseCNPJ) ==
  LET dv == alfa_calculateCheckDigits(baseCNPJ)
      alphanumericCNPJ == baseCNPJ \o <<JsNum(dv[1]), JsNum(dv[2])>>
  IN  JoinMixed(alphanumericCNPJ)

\* Mutant: a lowercase letter counts as its uppercase letter.
convertCnpj_anyCase(cnpj) ==
  LET lower == <<"a","b","c","d","e","f","g","h","i","j","k","l","m",
                 "n","o","p","q","r","s","t","u","v","w","x","y","z">>
  IN  [i \in 1..Len(cnpj) |->
         JsNum(IF cnpj[i] \in LowerLetters
               THEN convertLetterToNumber(ALPHABET[CHOOSE k \in 1..26 : lower[k] = cnpj[i]])
               ELSE IF isNaN(Number(cnpj[i])) THEN convertLetterToNumber(cnpj[i])
               ELSE Number(cnpj[i]))]

\* Array.from(cnpj).map(item => isNaN(Number(item)) ? convertLetterToNumber(item) : +item)
convertCnpj(cnpj) ==
  [i \in 1..Len(cnpj) |->
     JsNum(IF isNaN(Number(cnpj[i])) THEN convertLetterToNumber(cnpj[i])
           ELSE Number(cnpj[i]))]

validateAlphanumeric(cnpj) ==
  LET digits == convertCnpj(IF Len(cnpj) = CNPJ_LENGTH THEN SliceTo(cnpj, 12) ELSE cnpj)
      dv == alfa_calculateCheckDigits(digits)
      twoFinalDigitsOriginal == parseInt(SliceLast(cnpj, 2))
      twoFinalDigitsCalculated == parseInt(NumToStr(dv[1]) \o NumToStr(dv[2]))
  IN  StrictEq(twoFinalDigitsOriginal, twoFinalDigitsCalculated)

(***************************************************************************)
(* CNPJ dispatcher.                                                        *)
(***************************************************************************)
\* /^[0-9]+$/.test(value)
isNumeric(value) == Len(value) >= 1 /\ AllIn(value, Digits)

\* /^[a-zA-Z0-9]+$/.test(value)
isAlfanumeric(value) ==
  Len(value) >= 1 /\ AllIn(value, Digits \cup UpperLetters \cup LowerLetters)

\* Mutant: the character class also keeps the hyphen, /[^a-zA-Z0-9-]/g.
cnpj_clean_keepHyphen(cnpj) ==
  SelectSeq(cnpj, LAMBDA c : c \in Digits \cup UpperLetters \cup LowerLetters \cup {"-"})

\* cnpj.replace(/[^a-zA-Z0-9]/g, "")
cnpj_clean(cnpj) ==
  SelectSeq(cnpj, LAMBDA c : c \in Digits \cup UpperLetters \cup LowerLetters)

\* Mutant: the two tests of the dispatcher are made in the other order.
cnpj_route_alfaFirst(cnpj) ==
  LET cleanedCNPJ == cnpj_clean(cnpj)
  IN  IF Len(cleanedCNPJ) = CNPJ_LENGTH
      THEN (IF isAlfanumeric(cleanedCNPJ) THEN "alfanumeric"
            ELSE IF isNumeric(cleanedCNPJ) THEN "numeric"
            ELSE "none")
      ELSE "none"

\* Which validator isValid hands the input to: "numeric", "alfanumeric" or
\* "none" (the final return false).
cnpj_route(cnpj) ==
  LET cleanedCNPJ == cnpj_clean(cnpj)
  IN  IF Len(cleanedCNPJ) = CNPJ_LENGTH
      THEN (IF isNumeric(cleanedCNPJ) THEN "numeric"
            ELSE IF isAlfanumeric(cleanedCNPJ) THEN "alfanumeric"
            ELSE "none")
      ELSE "none"

cnpj_isValid(cnpj) ==
  LET cleanedCNPJ == cnpj_clean(cnpj)
      r == cnpj_route(cnpj)
  IN  CASE r = "numeric" -> validateNumeric(cleanedCNPJ)
        [] r = "alfanumeric" -> validateAlphanumeric(cleanedCNPJ)
        [] OTHER -> FALSE

\* cnpj.replace(/(.{2})(.{3})(.{3})(.{4})(.{2})/, "$1.$2.$3/$4-$5")
cnpj_format(cnpj) ==
  LET i == FirstRunNot(cnpj, 14, LineTerminators)
  IN  IF i = 0 THEN cnpj
      ELSE SubSeq(cnpj, 1, i - 1)
             \o SubSeq(cnpj, i, i + 1) \o <<".">>
             \o SubSeq(cnpj, i + 2, i + 4) \o <<".">>
             \o SubSeq(cnpj, i + 5, i + 7) \o <<"/">>
             \o SubSeq(cnpj, i + 8, i + 11) \o <<"-">>
             \o SubSeq(cnpj, i + 12, i + 13)
             \o SubSeq(cnpj, i + 14, Len(cnpj))

\* generate(options), given what the base generator drew.
cnpj_generate(type, base, formatted) ==
  LET cnpj == IF type = "alfanumeric" THEN generateAlphanumeric(base)
              ELSE generateNumeric(base)
  IN  IF formatted THEN cnpj_format(cnpj) ELSE cnpj

(***************************************************************************)
(* Schema adapter: documentValidator in index.ts.                          *)
(***************************************************************************)
\* A value handed to a rule: null or a string.
JsNull == [isNull |-> TRUE, str |-> <<>>]

JsString(s) == [isNull |-> FALSE, str |-> s]

\* What a rule returns: the value itself, or helpers.error(code).
Returned(value) == [type |-> "value", value |-> value, code |-> ""]

HelpersError(value, code) == [type |-> "error", value |-> value, code |-> code]

\* No rule was called.
NoOut == [type |-> "none", value |-> JsNull, code |-> ""]

\* Mutant: the test value !== null is left out (null is validated as "").
rule_cpf_noNullTest(value) ==
  IF ~cpf_isValid(value.str) THEN HelpersError(value, "document.cpf")
  ELSE Returned(value)

\* rules.cpf.validate(value, helpers)
rule_cpf(value) ==
  IF ~value.isNull /\ ~cpf_isValid(value.str) THEN HelpersError(value, "document.cpf")
  ELSE Returned(value)

\* rules.cnpj.validate(value, helpers)
rule_cnpj(value) ==
  IF ~value.isNull /\ ~cnpj_isValid(value.str) THEN HelpersError(value, "document.cnpj")
  ELSE Returned(value)

(***************************************************************************)
(* The random source and the caller's inputs.                              *)
(***************************************************************************)
\* Bases the seeds of generateBaseCPF's draws are taken from.
CPFSeeds ==
  { <<0,0,0,0,0,0,0,0,0>>,
    <<1,1,1,1,1,1,1,1,1>>,
    <<1,2,3,4,5,6,7,8,9>>,
    <<2,9,5,3,7,9,9,5,5>>,
    <<0,7,2,0,8,7,6,6,0>>,
    <<2,5,1,4,3,8,1,5,0>> }

NumericSeeds ==
  { <<5,4,5,5,0,7,5,2,0,0,0,1>>,
    <<0,0,0,0,0,0,0,0,0,0,0,0>>,
    <<2,5,1,4,3,8,1,5,0,0,0,1>>,
    <<5,4,5,5,0,7,5,2,0,0,5,7>>,
    <<2,0,2,4,5,5,2,6,0,0,0,1>>,
    <<0,1,2,8,3,1,9,1,2,8,3,1>> }

AlphanumericSeeds ==
  { <<JsNum(1), JsNum(2), JsStr("A"), JsStr("B"), JsStr("C"), JsNum(3), JsNum(4), JsNum(5), JsNum(0), JsNum(1), JsStr("D"), JsStr("E")>>,
    <<JsStr("O"), JsStr("G"), JsStr("Z"), JsStr("P"), JsNum(0), JsStr("N"), JsNum(7), JsNum(7), JsNum(4), JsNum(4), JsNum(4), JsStr("Y")>>,
    <<JsNum(0), JsNum(0), JsNum(0), JsNum(0), JsNum(0), JsNum(3), JsStr("A"), JsStr("B"), JsStr("C"), JsNum(0), JsNum(0), JsNum(9)>>,
    <<JsNum(0), JsNum(0), JsNum(0), JsNum(0), JsNum(0), JsNum(0), JsNum(0), JsNum(0), JsNum(0), JsNum(0), JsNum(0), JsNum(0)>>,
    <<JsNum(1), JsNum(2), JsStr("A"), JsStr("B"), JsStr("C"), JsNum(3), JsNum(4), JsNum(5), JsNum(0), JsNum(1), JsNum(5), JsNum(1)>>,
    <<JsNum(5), JsNum(4), JsNum(5), JsNum(5), JsNum(0), JsNum(7), JsNum(5), JsNum(2), JsNum(0), JsNum(0), JsStr("B"), JsNum(4)>> }

\* What one call of Math.floor(Math.random() * 10) can return.
RandomDigits == 0..9

\* What ALPHABET.charAt(Math.floor(Math.random() * ALPHABET.length)) returns,
\* within the bound.
RandomLetters == {ALPHABET[i] : i \in 1..MaxLetters}

\* The bases a generator can draw: a seed with its last MaxFree elements
\* drawn from `symbols`.
Draws(seeds, symbols) ==
  {SubSeq(seed, 1, Len(seed) - MaxFree) \o free :
     seed \in seeds, free \in [1..MaxFree -> symbols]}

generateBaseCPF == Draws(CPFSeeds, RandomDigits)

generateBaseNumeric == Draws(NumericSeeds, RandomDigits)

generateBaseAlphanumeric ==
  Draws(AlphanumericSeeds,
        {JsNum(d) : d \in RandomDigits} \cup {JsStr(c) : c \in RandomLetters})

\* n copies of the character c.
Rep(c, n) == [i \in 1..n |-> c]

\* XXX.XXX.XXX-XX and XX.XXX.XXX/XXXX-XX written out for a string of 11 and
\* of 14 characters.
MaskCPF(s) ==
  <<s[1], s[2], s[3], ".", s[4], s[5], s[6], ".", s[7], s[8], s[9], "-", s[10], s[11]>>

MaskCNPJ(s) ==
  <<s[1], s[2], ".", s[3], s[4], s[5], ".", s[6], s[7], s[8], "/",
    s[9], s[10], s[11], s[12], "-", s[13], s[14]>>

Alnum == Digits \cup UpperLetters \cup LowerLetters

Punctuation == {".", "-", "/", " "}

\* Strings a caller hands to the library: the vectors of the test suite and
\* of the README, the blacklists, and malformed input.
Literals ==
  { <<>>,
    <<"2","9","5","3","7","9","9","5","5","9","3">>,
    <<"2","9","5",".","3","7","9",".","9","5","5","-","9","3">>,
    <<"2","9","5","3","7","9","9","5","5","9","4">>,
    <<"5","4","5","5","0","7","5","2","0","0","0","1","5","5">>,
    <<"5","4",".","5","5","0",".","7","5","2","/","0","0","0","1","-","5","5">>,
    <<"5","4","5","5","0","7","5","2","0","0","0","1","5","6">>,
    <<"1","2","A","B","C","3","4","5","0","1","D","E","3","5">>,
    <<"1","2",".","A","B","C",".","3","4","5","/","0","1","D","E","-","3","5">>,
    <<"1","2","A","B","C","3","4","5","0","1","D","E","3","6">>,
    <<"1","2","3","4","5","6","7","8","9","0","9">>,
    <<"1","2","3",".","4","5","6",".","7","8","9","-","0","9">>,
    <<"A","B","C","D","E","F","G","H","I","J","K">>,
    <<"0","1","2","3","4","5","6","7","8","9","A">>,
    <<"1","2","A","B","C","3","4","5","0","1","D","E","3","\n">>,
    <<"1","2","3","4","5","6","7">>,
    <<"o","g","z","p","0","n","7","7","4","4","4","y","4","2">>,
    <<"2","9","5"," ","3","7","9"," ","9","5","5"," ","9","3">>,
    <<"5","4","5","5","0","7","5","2","0","0","5","7","0","x">>,
    <<"5","4","5","5","0","7","5","2","0","0","5","7","0","a">>,
    <<"1","2","A","B","C","3","4","5","0","1","D","E","5">>,
    <<"2","9","5","3","7","9","9","5","5","9","3","0","0","0">>,
    <<"0","1","2",".","8","3","1",".","9","1","2","-","8","3">>,
    <<"0","1","2","8","3","1","9","1","2","8","3","1","2","6">> }
  \cup {Rep(c, 11) : c \in Digits} \cup {MaskCPF(Rep(c, 11)) : c \in Digits}
  \cup {Rep(c, 14) : c \in Alnum \cup Punctuation}
  \cup {MaskCNPJ(Rep(c, 14)) : c \in Alnum}

\* The characters a caller puts in place of one of the last two characters.
FlipChars == Digits \cup RandomLetters

(***************************************************************************)
(* State: a caller that obtains one document string (generated, or its     *)
(* own) and calls the library on it.                                       *)
(***************************************************************************)
VARIABLES
  doc,      \* the string the caller holds
  prev,     \* the argument of the last format or flip (doc itself before any)
  call,     \* the last call made
  ret,      \* what the last isValid call returned
  route,    \* the validator the last cnpj.isValid call handed the input to
  src,      \* where doc comes from: "cpf", "numeric", "alfanumeric", "literal"
  fmtKind,  \* the format function applied to doc: "none", "cpf", "cnpj"
  nfmt,     \* how many times it was applied
  nmut,     \* how many characters the caller replaced
  out       \* what the last rule of the schema adapter returned

vars == <<doc, prev, call, ret, route, src, fmtKind, nfmt, nmut, out>>

Init ==
  /\ doc = <<>>
  /\ prev = <<>>
  /\ call = "init"
  /\ ret = FALSE
  /\ route = "none"
  /\ src = "none"
  /\ fmtKind = "none"
  /\ nfmt = 0
  /\ nmut = 0
  /\ out = NoOut

\* cpf.generate(options)
CpfGenerate ==
  /\ src = "none"
  /\ \E baseCPF \in generateBaseCPF, formatted \in BOOLEAN :
       /\ doc' = cpf_generate(baseCPF, formatted)
       /\ prev' = cpf_generate(baseCPF, FALSE)
       /\ call' = "cpf.generate"
       /\ src' = "cpf"
       /\ fmtKind' = IF formatted THEN "cpf" ELSE "none"
       /\ nfmt' = IF formatted THEN 1 ELSE 0
       /\ nmut' = 0
       /\ ret' = FALSE
       /\ route' = "none"
       /\ out' = NoOut

\* cnpj.generate(options) with no type or type "numeric"
CnpjGenerateNumeric ==
  /\ src = "none"
  /\ \E baseCNPJ \in generateBaseNumeric, formatted \in BOOLEAN :
       /\ doc' = cnpj_generate("numeric", baseCNPJ, formatted)
       /\ prev' = cnpj_generate("numeric", baseCNPJ, FALSE)
       /\ call' = "cnpj.generate"
       /\ src' = "numeric"
       /\ fmtKind' = IF formatted THEN "cnpj" ELSE "none"
       /\ nfmt' = IF formatted THEN 1 ELSE 0
       /\ nmut' = 0
       /\ ret' = FALSE
       /\ route' = "none"
       /\ out' = NoOut

\* cnpj.generate(options) with type "alfanumeric"
CnpjGenerateAlphanumeric ==
  /\ src = "none"
  /\ \E baseCNPJ \in generateBaseAlphanumeric, formatted \in BOOLEAN :
       /\ doc' = cnpj_generate("alfanumeric", baseCNPJ, formatted)
       /\ prev' = cnpj_generate("alfanumeric", baseCNPJ, FALSE)
       /\ call' = "cnpj.generate"
       /\ src' = "alfanumeric"
       /\ fmtKind' = IF formatted THEN "cnpj" ELSE "none"
       /\ nfmt' = IF formatted THEN 1 ELSE 0
       /\ nmut' = 0
       /\ ret' = FALSE
       /\ route' = "none"
       /\ out' = NoOut

\* The caller takes a string of its own.
Supply ==
  /\ src = "none"
  /\ \E s \in Literals :
       /\ doc' = s
       /\ prev' = s
       /\ call' = "supply"
       /\ src' = "literal"
       /\ fmtKind' = "none"
       /\ nfmt' = 0
       /\ nmut' = 0
       /\ ret' = FALSE
       /\ route' = "none"
       /\ out' = NoOut

\* The caller replaces one of the last two characters of an unformatted
\* document by another digit or letter.
Flip ==
  /\ src # "none"
  /\ nfmt = 0
  /\ nmut = 0
  /\ Len(doc) >= 2
  /\ \E i \in {Len(doc) - 1, Len(doc)} :
       \E c \in FlipChars \ {doc[i]} : doc' = [doc EXCEPT ![i] = c]
  /\ prev' = doc
  /\ call' = "flip"
  /\ nmut' = 1
  /\ ret' = FALSE
  /\ route' = "none"
  /\ out' = NoOut
  /\ UNCHANGED <<src, fmtKind, nfmt>>

\* cpf.format(doc)
CpfFormat ==
  /\ src # "none"
  /\ nmut = 0
  /\ nfmt < MaxFormats
  /\ fmtKind \in {"none", "cpf"}
  /\ doc' = cpf_format(doc)
  /\ prev' = doc
  /\ call' = "cpf.format"
  /\ fmtKind' = "cpf"
  /\ nfmt' = nfmt + 1
  /\ ret' = FALSE
  /\ route' = "none"
  /\ out' = NoOut
  /\ UNCHANGED <<src, nmut>>

\* cnpj.format(doc)
CnpjFormat ==
  /\ src # "none"
  /\ nmut = 0
  /\ nfmt < MaxFormats
  /\ fmtKind \in {"none", "cnpj"}
  /\ doc' = cnpj_format(doc)
  /\ prev' = doc
  /\ call' = "cnpj.format"
  /\ fmtKind' = "cnpj"
  /\ nfmt' = nfmt + 1
  /\ ret' = FALSE
  /\ route' = "none"
  /\ out' = NoOut
  /\ UNCHANGED <<src, nmut>>

\* cpf.isValid(doc)
CpfIsValid ==
  /\ call' = "cpf.isValid"
  /\ ret' = cpf_isValid(doc)
  /\ route' = "none"
  /\ out' = NoOut
  /\ UNCHANGED <<doc, prev, src, fmtKind, nfmt, nmut>>

\* cnpj.isValid(doc)
CnpjIsValid ==
  /\ call' = "cnpj.isValid"
  /\ ret' = cnpj_isValid(doc)
  /\ route' = cnpj_route(doc)
  /\ out' = NoOut
  /\ UNCHANGED <<doc, prev, src, fmtKind, nfmt, nmut>>

\* The rule cpf of the schema adapter, on null or on the caller's string.
RuleCpf ==
  /\ \E value \in {JsNull, JsString(doc)} : out' = rule_cpf(value)
  /\ call' = "rule.cpf"
  /\ ret' = FALSE
  /\ route' = "none"
  /\ UNCHANGED <<doc, prev, src, fmtKind, nfmt, nmut>>

\* The rule cnpj of the schema adapter.
RuleCnpj ==
  /\ \E value \in {JsNull, JsString(doc)} : out' = rule_cnpj(value)
  /\ call' = "rule.cnpj"
  /\ ret' = FALSE
  /\ route' = "none"
  /\ UNCHANGED <<doc, prev, src, fmtKind, nfmt, nmut>>

Next ==
  \/ CpfGenerate
  \/ CnpjGenerateNumeric
  \/ CnpjGenerateAlphanumeric
  \/ Supply
  \/ Flip
  \/ CpfFormat
  \/ CnpjFormat
  \/ CpfIsValid
  \/ CnpjIsValid
  \/ RuleCpf
  \/ RuleCnpj

Spec == Init /\ [][Next]_vars

TypeOK ==
  /\ ret \in BOOLEAN
  /\ route \in {"none", "numeric", "alfanumeric"}
  /\ nfmt \in 0..MaxFormats
  /\ nmut \in 0..1
  /\ out.type \in {"none", "value", "error"}
  /\ out.code \in {"", "document.cpf", "document.cnpj"}

(***************************************************************************)
(* Properties.                                                             *)
(***************************************************************************)
\* doc is a document as a generator returned it, formatted by the matching
\* format function at most once and otherwise untouched.
GeneratedCPF ==
  src = "cpf" /\ nmut = 0 /\ nfmt <= 1 /\ fmtKind \in {"none", "cpf"}

GeneratedCNPJ ==
  /\ src \in {"numeric", "alfanumeric"}
  /\ nmut = 0 /\ nfmt <= 1 /\ fmtKind \in {"none", "cnpj"}

\* C1: round trip.  Every document d that cpf.generate or cnpj.generate
\* returns is valid for the matching validator, and so is format(d).
C1_RoundTrip ==
  /\ (call = "cpf.isValid" /\ GeneratedCPF) => ret = TRUE
  /\ (call = "cnpj.isValid" /\ GeneratedCNPJ) => ret = TRUE

\* An unformatted CPF (11 digits) or CNPJ (14 letters or digits).
PlainCPF(s) == Len(s) = 11 /\ \A i \in 1..11 : s[i] \in Digits

PlainCNPJ(s) == Len(s) = 14 /\ \A i \in 1..14 : s[i] \in Alnum

\* C2: mutation sensitivity.  When an unformatted document accepted by
\* isValid has one of its last two characters replaced by another digit or
\* letter, isValid rejects the result.
C2_MutationSensitivity ==
  /\ (call = "cpf.isValid" /\ nmut = 1 /\ PlainCPF(prev) /\ cpf_isValid(prev))
       => ret = FALSE
  /\ (call = "cnpj.isValid" /\ nmut = 1 /\ PlainCNPJ(prev) /\ cnpj_isValid(prev))
       => ret = FALSE

\* A CPF or CNPJ in its formatted shape.
MaskedCPF(s) ==
  /\ Len(s) = 14
  /\ \A i \in 1..14 : IF i \in {4, 8} THEN s[i] = "."
                      ELSE IF i = 12 THEN s[i] = "-"
                      ELSE s[i] \in Digits

MaskedCNPJ(s) ==
  /\ Len(s) = 18
  /\ \A i \in 1..18 : IF i \in {3, 7} THEN s[i] = "."
                      ELSE IF i = 11 THEN s[i] = "/"
                      ELSE IF i = 16 THEN s[i] = "-"
                      ELSE s[i] \in Alnum

\* C3: cross-type rejection.  cnpj.isValid rejects every valid CPF, and
\* cpf.isValid rejects every valid CNPJ, formatted or not.
C3_CrossTypeRejection ==
  /\ (call = "cnpj.isValid" /\ (PlainCPF(doc) \/ MaskedCPF(doc)) /\ cpf_isValid(doc))
       => ret = FALSE
  /\ (call = "cpf.isValid" /\ (PlainCNPJ(doc) \/ MaskedCNPJ(doc)) /\ cnpj_isValid(doc))
       => ret = FALSE

\* C4: formatting has no effect on validity.  For every generated document
\* x (held in prev), isValid(format(x)) is isValid(x).
C4_FormatKeepsValidity ==
  /\ (call = "cpf.isValid" /\ GeneratedCPF /\ nfmt = 1) => ret = cpf_isValid(prev)
  /\ (call = "cnpj.isValid" /\ GeneratedCNPJ /\ nfmt = 1) => ret = cnpj_isValid(prev)

C4_Witness ==
  /\ call = "cnpj.isValid" /\ GeneratedCNPJ /\ nfmt = 1
  /\ src = "alfanumeric"
  /\ MaskedCNPJ(doc) /\ PlainCNPJ(prev)
  /\ ret = TRUE

\* The strings of the CPF blacklist, formatted or not.
CPFBlacklist ==
  {Rep(c, 11) : c \in Digits} \cup {MaskCPF(Rep(c, 11)) : c \in Digits}
  \cup { <<"1","2","3","4","5","6","7","8","9","0","9">>,
         <<"1","2","3",".","4","5","6",".","7","8","9","-","0","9">> }

\* C5: blacklist.  cpf.isValid rejects the ten strings of 11 equal digits
\* and 12345678909, formatted or not; cnpj.isValid rejects every string of
\* 14 equal characters.
C5_Blacklist ==
  /\ (call = "cpf.isValid" /\ doc \in CPFBlacklist) => ret = FALSE
  /\ (call = "cnpj.isValid" /\ Len(doc) = 14 /\ \A i \in 1..14 : doc[i] = doc[1])
       => ret = FALSE

\* 00000000000000 is rejected although its check digits are the right ones.
C5_Witness ==
  /\ call = "cnpj.isValid"
  /\ doc = Rep("0", 14)
  /\ numeric_calculateCheckDigits(Rep(0, 12)) = <<0, 0>>
  /\ ret = FALSE

\* How many characters of s belong to the class cls.
Count(s, cls) == Cardinality({i \in DOMAIN s : s[i] \in cls})

C7_Dispatch ==
  call = "cnpj.isValid" =>
    LET kept == SelectSeq(doc, LAMBDA c : c \in Alnum)
        hasLetter == \E i \in DOMAIN doc : doc[i] \in UpperLetters \cup LowerLetters
    IN  /\ Len(kept) # 14 => (route = "none" /\ ret = FALSE)
        /\ (Len(kept) = 14 /\ ~hasLetter) =>
             (route = "numeric" /\ ret = validateNumeric(kept))
        /\ (Len(kept) = 14 /\ hasLetter) =>
             (route = "alfanumeric" /\ ret = validateAlphanumeric(kept))

C7_Witness ==
  /\ call = "cnpj.isValid"
  /\ route = "alfanumeric"
  /\ MaskedCNPJ(doc)
  /\ ret = TRUE

\* C8 as stated: format puts the punctuation at fixed positions whatever the
\* characters are, for every string of 11 (CPF) or 14 (CNPJ) characters.
C8_FormatAnyContent ==
  /\ (call = "cpf.format" /\ Len(prev) = 11) => doc = MaskCPF(prev)
  /\ (call = "cnpj.format" /\ Len(prev) = 14) => doc = MaskCNPJ(prev)

\* C8 (amended): for every string s of 11 decimal digits cpf.format(s) is
\* s[1..3] . s[4..6] . s[7..9] - s[10..11]; for every string s of 14
\* characters none of which is a line terminator, whatever they are,
\* cnpj.format(s) is s[1..2] . s[3..5] . s[6..8] / s[9..12] - s[13..14].
C8_FormatFixedPositions ==
  /\ (call = "cpf.format" /\ Len(prev) = 11 /\ (\A i \in 1..11 : prev[i] \in Digits))
       => doc = MaskCPF(prev)
  /\ (call = "cnpj.format" /\ Len(prev) = 14
        /\ (\A i \in 1..14 : prev[i] \notin LineTerminators))
       => doc = MaskCNPJ(prev)

C8_Witness ==
  /\ call = "cpf.format"
  /\ Len(prev) = 11 /\ (\A i \in 1..11 : prev[i] \in Digits)
  /\ Len(doc) = 14 /\ doc[12] = "-"

\* C9: the documented vectors are classified as the tests state.
C9_Vectors ==
  /\ call = "cpf.isValid" =>
       /\ doc = <<"2","9","5",".","3","7","9",".","9","5","5","-","9","3">> => ret = TRUE
       /\ doc = <<"2","9","5","3","7","9","9","5","5","9","3">> => ret = TRUE
       /\ doc = <<"2","9","5","3","7","9","9","5","5","9","4">> => ret = FALSE
  /\ call = "cnpj.isValid" =>
       /\ doc = <<"5","4",".","5","5","0",".","7","5","2","/","0","0","0","1","-","5","5">>
            => ret = TRUE
       /\ doc = <<"5","4","5","5","0","7","5","2","0","0","0","1","5","5">> => ret = TRUE
       /\ doc = <<"5","4","5","5","0","7","5","2","0","0","0","1","5","6">> => ret = FALSE
       /\ doc = <<"1","2",".","A","B","C",".","3","4","5","/","0","1","D","E","-","3","5">>
            => ret = TRUE
       /\ doc = <<"1","2","A","B","C","3","4","5","0","1","D","E","3","5">> => ret = TRUE
       /\ doc = <<"1","2","A","B","C","3","4","5","0","1","D","E","3","6">> => ret = FALSE

C9_Witness ==
  /\ call = "cnpj.isValid"
  /\ src = "literal"
  /\ doc = <<"1","2",".","A","B","C",".","3","4","5","/","0","1","D","E","-","3","5">>
  /\ ret = TRUE

\* 12 characters, each a digit or an uppercase letter, then 2 digits.
AlphanumericShape(s) ==
  /\ Len(s) = 14
  /\ \A i \in 1..12 : s[i] \in Digits \cup UpperLetters
  /\ s[13] \in Digits /\ s[14] \in Digits

\* C10: shape of generated documents.  cpf.generate returns 11 digits, or
\* DDD.DDD.DDD-DD when formatted; cnpj.generate returns 14 digits (numeric)
\* or 12 digits or uppercase letters followed by 2 digits (alfanumeric), or
\* 18 characters XX.XXX.XXX/XXXX-XX of that content when formatted.
C10_GeneratedShape ==
  /\ (call = "cpf.generate" /\ nfmt = 0) => PlainCPF(doc)
  /\ (call = "cpf.generate" /\ nfmt = 1) => (MaskedCPF(doc) /\ Len(doc) = 14)
  /\ (call = "cnpj.generate" /\ src = "numeric" /\ nfmt = 0) =>
       (Len(doc) = 14 /\ \A i \in 1..14 : doc[i] \in Digits)
  /\ (call = "cnpj.generate" /\ src = "alfanumeric" /\ nfmt = 0) => AlphanumericShape(doc)
  /\ (call = "cnpj.generate" /\ nfmt = 1) =>
       /\ Len(doc) = 18
       /\ doc[3] = "." /\ doc[7] = "." /\ doc[11] = "/" /\ doc[16] = "-"
       /\ LET content == SelectSeq(doc, LAMBDA c : c \notin {".", "/", "-"})
          IN  IF src = "numeric"
              THEN Len(content) = 14 /\ \A i \in 1..14 : content[i] \in Digits
              ELSE AlphanumericShape(content)

C10_Witness ==
  /\ call = "cnpj.generate"
  /\ src = "alfanumeric"
  /\ nfmt = 1
  /\ Len(doc) = 18
  /\ \E i \in 1..18 : doc[i] \in UpperLetters

\* C11: the rules of the schema adapter.  The rule cpf (cnpj) returns the
\* value unchanged when it is null or cpf.isValid (cnpj.isValid) accepts it,
\* and the error document.cpf (document.cnpj) otherwise; the rule cpf never
\* yields document.cnpj, nor the rule cnpj document.cpf.
C11_AdapterRules ==
  /\ call = "rule.cpf" =>
       /\ out.value \in {JsNull, JsString(doc)}
       /\ IF out.value.isNull \/ cpf_isValid(doc)
          THEN out.type = "value"
          ELSE out.type = "error" /\ out.code = "document.cpf"
       /\ out.code # "document.cnpj"
  /\ call = "rule.cnpj" =>
       /\ out.value \in {JsNull, JsString(doc)}
       /\ IF out.value.isNull \/ cnpj_isValid(doc)
          THEN out.type = "value"
          ELSE out.type = "error" /\ out.code = "document.cnpj"
       /\ out.code # "document.cpf"

\* The rule cpf lets null pass, although cpf.isValid rejects the string held.
C11_Witness ==
  /\ call = "rule.cpf"
  /\ out.type = "value"
  /\ out.value = JsNull
  /\ ~cpf_isValid(doc)

\* The digits of a string, in order, every other character discarded.
DigitsOf(s) == SelectSeq(s, LAMBDA c : c \in Digits)

\* The value of the digit at position i (from 1) of a string of digits.
DigitAt(s, i) == CHOOSE n \in 0..9 : NumToStr(n) = <<s[i]>>

\* The stated condition for a CPF, on the digits of the input alone.
CPFAccepted(ds) ==
  /\ Len(ds) = 11
  /\ \E i \in 2..11 : ds[i] # ds[1]
  /\ ds # <<"1","2","3","4","5","6","7","8","9","0","9">>
  /\ LET base == [i \in 1..9 |-> DigitAt(ds, i)]
         first == cpf_calculateCheckDigit(base)
     IN  /\ DigitAt(ds, 10) = first
         /\ DigitAt(ds, 11) = cpf_calculateCheckDigit(Append(base, first))

\* C12: cpf.isValid(input) is true exactly when the digits of input number
\* 11, are not all identical, are not 12345678909, and the 10th and 11th
\* equal the two check digits of the first 9; the result is that of the
\* digits alone.
C12_CpfIsValidByDigits ==
  call = "cpf.isValid" =>
    /\ ret = CPFAccepted(DigitsOf(doc))
    /\ ret = cpf_isValid(DigitsOf(doc))

\* A string with characters that are not digits is accepted on its digits.
C12_Witness ==
  /\ call = "cpf.isValid"
  /\ ret
  /\ \E i \in 1..Len(doc) : doc[i] \in UpperLetters

\* C13: every string accepted by cnpj.isValid has, after cleaning, decimal
\* digits in positions 13 and 14, equal to the first and second check digit
\* computed from its first 12 characters.
C13_AcceptedHasCheckDigits ==
  (call = "cnpj.isValid" /\ ret) =>
    LET cleanedCNPJ == cnpj_clean(doc)
        dv == alfa_calculateCheckDigits(convertCnpj(SliceTo(cleanedCNPJ, 12)))
    IN  /\ Len(cleanedCNPJ) = CNPJ_LENGTH
        /\ cleanedCNPJ[13] \in Digits
        /\ cleanedCNPJ[14] \in Digits
        /\ <<cleanedCNPJ[13]>> = NumToStr(dv[1])
        /\ <<cleanedCNPJ[14]>> = NumToStr(dv[2])

\* The value of each symbol of a cleaned string: a digit counts as itself, a
\* letter A..Z as its ASCII code minus 48 (17..42), any other symbol as 0.
SymbolValue(c) ==
  IF c \in Digits THEN DigitAt(<<c>>, 1)
  ELSE IF c \in UpperLetters THEN 16 + (CHOOSE k \in 1..26 : ALPHABET[k] = c)
  ELSE 0

SymbolValues(s) == [i \in 1..Len(s) |-> SymbolValue(s[i])]

\* The sum of the products of two sequences of equal length.
RECURSIVE Dot(_, _)
Dot(values, weights) ==
  IF values = <<>> THEN 0
  ELSE Head(values) * Head(weights) + Dot(Tail(values), Tail(weights))

\* Modulo 11: 0 when the remainder is 0 or 1, 11 minus the remainder otherwise.
Mod11Digit(sum) == IF sum % 11 \in {0, 1} THEN 0 ELSE 11 - (sum % 11)

\* The i-th of n weights, from the left: n+1 down to 2.
CPFWeights(n) == [i \in 1..n |-> n + 2 - i]

\* The i-th of n weights, from the left: 2 for the rightmost, one more per
\* position leftward, 2 again after 9.
CNPJWeights(n) == [i \in 1..n |-> 2 + ((n - i) % 8)]

\* The symbols of doc that a clean function keeps, and their values.
DocSymbols == cnpj_clean(doc)

DocValues == SymbolValues(DocSymbols)

\* A sequence of values as an array of numbers of the alphanumeric engine.
AsJsNums(values) == [i \in 1..Len(values) |-> JsNum(values[i])]

\* C14: every check digit is in 0..9; on every sequence of non-negative
\* values (every prefix of the values of a document obtained) each of the three calculateCheckDigit functions gives 0 when its
\* weighted sum modulo 11 is 0 or 1 and 11 minus the remainder otherwise, and
\* the second check digit is computed over the base followed by the first.
C14_CheckDigitRange ==
  /\ call \in {"cpf.generate", "cnpj.generate", "supply"} =>
     \A n \in 0..Len(DocValues) :
       LET p == SliceTo(DocValues, n)
           cpfDigit == cpf_calculateCheckDigit(p)
           numDigit == numeric_calculateCheckDigit(p)
           alfaDigit == alfa_calculateCheckDigit(AsJsNums(p))
       IN  /\ cpfDigit \in 0..9
           /\ numDigit \in 0..9
           /\ alfaDigit \in 0..9
           /\ cpfDigit = Mod11Digit(Dot(p, CPFWeights(n)))
           /\ numDigit = Mod11Digit(Dot(p, CNPJWeights(n)))
           /\ alfaDigit = Mod11Digit(Dot(p, CNPJWeights(n)))
           /\ numeric_calculateCheckDigits(p)
                = <<numDigit, numeric_calculateCheckDigit(Append(p, numDigit))>>
           /\ alfa_calculateCheckDigits(AsJsNums(p))
                = <<alfaDigit, alfa_calculateCheckDigit(AsJsNums(Append(p, alfaDigit)))>>
  /\ call = "cpf.generate" =>
       LET d == SymbolValues(DigitsOf(doc))
           firstDigit == cpf_calculateCheckDigit(SliceTo(d, 9))
       IN  /\ Len(d) = 11
           /\ d[10] = firstDigit
           /\ d[11] = cpf_calculateCheckDigit(Append(SliceTo(d, 9), firstDigit))

\* A generated numeric CNPJ whose first weighted sum leaves remainder 1: its
\* first check digit is 0.
C14_Witness ==
  /\ call = "cnpj.generate"
  /\ src = "numeric"
  /\ Len(DocValues) = 14
  /\ Dot(SliceTo(DocValues, 12), CNPJWeights(12)) % 11 = 1
  /\ DocValues[13] = 0

\* The digits of doc, as numbers.
DocDigits == SymbolValues(DigitsOf(doc))

C16_CnpjWeights ==
  call \in {"cnpj.generate", "supply"} =>
    /\ \A n \in 0..Len(DocValues) :
         LET p == SliceTo(DocValues, n)
         IN  /\ numeric_loop(p, n - 1, 0, 2) = Dot(p, CNPJWeights(n))
             /\ alfa_loop(AsJsNums(p), n - 1, 0, 2) = Dot(p, CNPJWeights(n))
             /\ numeric_calculateCheckDigit(p) = Mod11Digit(Dot(p, CNPJWeights(n)))
             /\ alfa_calculateCheckDigit(AsJsNums(p)) = Mod11Digit(Dot(p, CNPJWeights(n)))
    /\ Len(DocValues) >= 12 =>
         LET p == SliceTo(DocValues, 12)
             w == <<5, 4, 3, 2, 9, 8, 7, 6, 5, 4, 3, 2>>
         IN  /\ CNPJWeights(12) = w
             /\ numeric_calculateCheckDigit(p) = Mod11Digit(Dot(p, w))
             /\ alfa_calculateCheckDigit(AsJsNums(p)) = Mod11Digit(Dot(p, w))
    /\ Len(DocValues) >= 13 =>
         LET p == SliceTo(DocValues, 13)
             w == <<6, 5, 4, 3, 2, 9, 8, 7, 6, 5, 4, 3, 2>>
         IN  /\ CNPJWeights(13) = w
             /\ numeric_calculateCheckDigit(p) = Mod11Digit(Dot(p, w))
             /\ alfa_calculateCheckDigit(AsJsNums(p)) = Mod11Digit(Dot(p, w))

\* A generated alphanumeric CNPJ with a letter in its base whose two check
\* digits, both other than 0, are those of the two lists of weights.
C16_Witness ==
  /\ call = "cnpj.generate"
  /\ src = "alfanumeric"
  /\ Len(DocValues) = 14
  /\ \E i \in 1..12 : DocValues[i] >= 17
  /\ DocValues[13] # 0
  /\ DocValues[14] # 0
  /\ DocValues[13] = Mod11Digit(Dot(SliceTo(DocValues, 12), <<5, 4, 3, 2, 9, 8, 7, 6, 5, 4, 3, 2>>))
  /\ DocValues[14] = Mod11Digit(Dot(SliceTo(DocValues, 13), <<6, 5, 4, 3, 2, 9, 8, 7, 6, 5, 4, 3, 2>>))

\* The two check digits of 12 symbols, from the stated symbol values.
StatedCheckDigits(symbols) ==
  LET values == SymbolValues(symbols)
      first == Mod11Digit(Dot(values, CNPJWeights(Len(values))))
      second == Mod11Digit(Dot(Append(values, first), CNPJWeights(Len(values) + 1)))
  IN  <<first, second>>

UpperCase(s) ==
  LET lower == <<"a","b","c","d","e","f","g","h","i","j","k","l","m",
                 "n","o","p","q","r","s","t","u","v","w","x","y","z">>
  IN  [i \in 1..Len(s) |->
         IF s[i] \in LowerLetters
         THEN ALPHABET[CHOOSE k \in 1..26 : lower[k] = s[i]]
         ELSE s[i]]

C18_FormatIdempotent ==
  (nfmt = 2 /\ nmut = 0) =>
    /\ (src = "cpf" /\ fmtKind = "cpf") => doc = prev
    /\ (src \in {"numeric", "alfanumeric"} /\ fmtKind = "cnpj") => doc = prev

\* A string of 14 digits.
FourteenDigits(s) == Len(s) = CNPJ_LENGTH /\ AllIn(s, Digits)

\* C19: on every string of 14 digits that is not one repeated digit,
\* validateNumeric and validateAlphanumeric give the same verdict, so the
\* choice the dispatcher makes changes the verdict of a string of 14 digits
\* only when it is one repeated digit.
C19_ValidatorsAgree ==
  FourteenDigits(DocSymbols) =>
    /\ ~RepeatedDigit(DocSymbols) =>
         validateNumeric(DocSymbols) = validateAlphanumeric(DocSymbols)
    /\ validateNumeric(DocSymbols) # validateAlphanumeric(DocSymbols) =>
         RepeatedDigit(DocSymbols)
    /\ (call = "cnpj.isValid" /\ ~RepeatedDigit(DocSymbols)) =>
         /\ route = "numeric"
         /\ ret = validateAlphanumeric(DocSymbols)

\* The dispatcher sent 14 digits with a wrong last digit to validateNumeric,
\* which rejected them, as validateAlphanumeric does; the same string with
\* its own check digits is accepted by both.
C19_Witness ==
  /\ call = "cnpj.isValid"
  /\ route = "numeric"
  /\ nmut = 1
  /\ FourteenDigits(DocSymbols)
  /\ ~RepeatedDigit(DocSymbols)
  /\ ~ret
  /\ ~validateAlphanumeric(DocSymbols)
  /\ FourteenDigits(cnpj_clean(prev))
  /\ validateNumeric(cnpj_clean(prev))
  /\ validateAlphanumeric(cnpj_clean(prev))

====
